---- MODULE Spec2Model ----
(***************************************************************************)
(* Stock-movement engine of the warehouse desktop management program:      *)
(* StockService.add_in_stock / add_out_stock (service/stock_service.py),   *)
(* the record-number generator, the shape validation, the reference and    *)
(* stock pre-checks, the MySQL transaction each post opens, and the        *)
(* searches of the ledger (StockService.search_stock_records and           *)
(* QueryService.query_stock_records in service/query_service.py).          *)
(*                                                                         *)
(* Values. An optional field (Python None / SQL NULL) is the empty tuple   *)
(* <<>>, a present value v is <<v>>. Prices and amounts are integers (an   *)
(* exact Decimal in a fixed unit). quantity, warehouse_id and product_id   *)
(* are integers where 0 stands for both 0 and None (the code tests them    *)
(* with `not x`, which treats the two alike). A record number is the       *)
(* string itself, one number per character: a digit is 0..9, a letter is   *)
(* 10 + its position in the alphabet (A = 10 .. Z = 35), so that the order *)
(* of the numbers is the order of the characters; the space character,     *)
(* which sorts before the digits, is -1. A calendar day d is the date      *)
(* 2025-01-0d; the clock `now` counts days. An operator name is a string   *)
(* of letters, optional like every nullable column. In a conditions dict   *)
(* of a search, an id or kind of 0, a date of <<>> and an empty string     *)
(* stand for a key that is absent or falsy.                                *)
(***************************************************************************)
EXTENDS Integers, Sequences, FiniteSets, TLC

\* ------------------------------------------------------------------ bounds
MaxQty == 2
MaxCalls == 2
MaxCallsSeq == 4
MaxCallsForms == 2
MaxCallsDays == 4
MaxCallsFind == 2
MaxCallsDao == 3
MaxCallsGen == 3
MaxCallsDelete == 2
MaxDeletes == 2
MaxDay == 2

Workers == {1, 2}
Days == 1..MaxDay

\* ------------------------------------------------------------------ values
None == <<>>
Some(v) == <<v>>
IsNone(o) == o = <<>>
Val(o) == o[1]

\* Python truthiness of an optional number: None and 0 are false.
Truthy(o) == o # <<>> /\ o[1] # 0

Min2(a, b) == IF a < b THEN a ELSE b

\* ------------------------------------------------------------ record numbers
ChR == 27
ChK == 20
ChC == 12
ChS == 28
ChSpace == 0 - 1

\* value.strip() == '': the string holds nothing but spaces
IsBlank(s) == \A i \in 1..Len(s) : s[i] = ChSpace

\* datetime.now().strftime('%Y%m%d') for day d
DateStr(d) == <<2, 0, 2, 5, 0, 1, 0, d>>

\* prefix = f'RK{date_str}' / f'CK{date_str}' / f'SR{date_str}'
Prefix(record_type, d) ==
    IF record_type = 1 THEN <<ChR, ChK>> \o DateStr(d)
    ELSE IF record_type = 2 THEN <<ChC, ChK>> \o DateStr(d)
    ELSE <<ChS, ChR>> \o DateStr(d)

RECURSIVE Digits(_)
\* str(n) for n >= 0
Digits(n) == IF n < 10 THEN <<n>> ELSE Digits(n \div 10) \o <<n % 10>>

\* f"{n:04d}": zero-padded to at least 4 characters, longer when n > 9999
Format04d(n) ==
    LET ds == Digits(n)
    IN  IF Len(ds) >= 4 THEN ds
        ELSE [i \in 1..(4 - Len(ds)) |-> 0] \o ds

\* s[-4:]: the last four characters, the whole string when it is shorter
Last4(s) == IF Len(s) <= 4 THEN s ELSE SubSeq(s, Len(s) - 3, Len(s))

\* int(s) succeeds only on a non-empty string of digits
IsDigits(s) == Len(s) > 0 /\ \A i \in 1..Len(s) : s[i] \in 0..9

RECURSIVE ParseInt(_)
ParseInt(s) ==
    IF Len(s) = 0 THEN 0
    ELSE 10 * ParseInt(SubSeq(s, 1, Len(s) - 1)) + s[Len(s)]

\* record_no LIKE 'prefix%'
HasPrefix(s, p) == Len(s) >= Len(p) /\ SubSeq(s, 1, Len(p)) = p

\* string order used by ORDER BY record_no
LexLess(a, b) ==
    \E i \in 1..(Min2(Len(a), Len(b)) + 1) :
        /\ \A j \in 1..(i - 1) : a[j] = b[j]
        /\ \/ i > Len(a) /\ i <= Len(b)
           \/ i <= Len(a) /\ i <= Len(b) /\ a[i] < b[i]

\* SELECT record_no ... WHERE record_no LIKE prefix% ORDER BY record_no DESC LIMIT 1
MaxRecordNo(rows, p) ==
    LET nos == {r.record_no : r \in {x \in rows : HasPrefix(x.record_no, p)}}
    IN  IF nos = {} THEN None
        ELSE Some(CHOOSE n \in nos : \A m \in nos : m = n \/ LexLess(m, n))

\* mutant: the sequence skips a number
NextNumSkips(last_num) == last_num + 2

\* new_num = last_num + 1
NextNum(last_num) == last_num + 1

\* generate_record_no: <<"ok", number>> or <<"ValueError">> when int() raises
GenerateRecordNo(rows, record_type, d) ==
    LET p == Prefix(record_type, d)
        last == MaxRecordNo(rows, p)
    IN  IF IsNone(last) THEN <<"ok", p \o Format04d(1)>>
        ELSE IF ~IsDigits(Last4(Val(last))) THEN <<"ValueError">>
        ELSE <<"ok", p \o Format04d(NextNum(ParseInt(Last4(Val(last)))))>>


\* ------------------------------------------------------------------- state
VARIABLES
    now,            \* the clock (datetime.now()), in days
    warehouse,      \* table warehouse: rows [id, status]
    product,        \* table product: rows [id, status]
    stock_record,   \* table stock_record, committed rows
    inventory,      \* table inventory, committed rows
    next_id,        \* AUTO_INCREMENT of stock_record.id
    applied,        \* history: ids of the ledger rows whose inventory statement is committed
    calls,          \* number of add_in_stock / add_out_stock calls started
    pc,             \* per worker: where its call stands
    req,            \* per worker: the StockRecord object of its call
    existing,       \* per worker: the row fetched inside the transaction
    tx,             \* per worker: the uncommitted writes of its connection
    result,         \* per worker: how its last call ended
    find,           \* the last search of the ledger: its conditions and its result
    op,             \* per worker: the operation of its call
    del             \* the WarehouseDAO.delete / ProductDAO.delete call under way

vars == <<now, warehouse, product, stock_record, inventory, next_id, applied,
          calls, pc, req, existing, tx, result, find, op, del>>

db == <<stock_record, inventory, next_id, applied>>

\* mutant: the connection commits every statement on its own
AutocommitOn == TRUE

\* pymysql.connect(..., autocommit=False)
Autocommit == FALSE

\* mutant: stock_record has no unique key on record_no
RecordNoNotUnique == FALSE

\* mutant: inventory has no unique key on (warehouse_id, product_id)
InventoryKeyNotUnique == FALSE

\* Schema (not part of the sources): record_no is a unique key of stock_record,
\* (warehouse_id, product_id) is a unique key of inventory.
UniqueRecordNo == TRUE
UniqueInventoryKey == TRUE

NoTx == [rec |-> None, inv |-> None]

Ok == [kind |-> "ok", current |-> 0, requested |-> 0, errors |-> {}]
\* no call has ended yet
Pending == [kind |-> "pending", current |-> 0, requested |-> 0, errors |-> {}]
Failure(k) == [kind |-> k, current |-> 0, requested |-> 0, errors |-> {}]
\* mutant: the message reports the two numbers the wrong way round
InsufficientStockSwapped(cur, q) ==
    [kind |-> "InsufficientStock", current |-> q, requested |-> cur, errors |-> {}]

\* Exception(f"库存不足，当前库存：{current}，需要：{requested}")
InsufficientStock(cur, q) ==
    [kind |-> "InsufficientStock", current |-> cur, requested |-> q, errors |-> {}]
\* ValueError("; ".join(errors))
ValidationFailed(errs) ==
    [kind |-> "ValidationFailed", current |-> 0, requested |-> 0, errors |-> errs]

\* the StockRecord a caller passes in
BaseReq(wh, pr, q, d) ==
    [id |-> None, record_no |-> None, record_type |-> 0,
     warehouse_id |-> wh, product_id |-> pr, quantity |-> q,
     unit_price |-> None, total_amount |-> None,
     supplier_client_id |-> None, operator |-> None, record_date |-> Some(d)]

\* a conditions dict without any key
NoConditions ==
    [warehouse_id |-> 0, product_id |-> 0, supplier_client_id |-> 0,
     record_type |-> 0, start_date |-> None, end_date |-> None,
     record_no |-> <<>>, operator |-> <<>>]

\* no search has been made yet
NoFind == [op |-> "none", conditions |-> NoConditions, records |-> <<>>]

\* SELECT ... FROM inventory WHERE warehouse_id=%s AND product_id=%s
\* no delete call has been made
NoDelete ==
    [pc |-> "idle", table |-> "none", id |-> 0, count1 |-> 0, result |-> "none",
     n |-> 0]

InvRows(inv, wh, pr) == {r \in inv : r.warehouse_id = wh /\ r.product_id = pr}

Init ==
    /\ now = 1
    /\ warehouse = {[id |-> 1, status |-> 1], [id |-> 2, status |-> 0]}
    /\ product = {[id |-> 1, status |-> 1], [id |-> 2, status |-> 1],
                  [id |-> 3, status |-> 0]}
    /\ stock_record = {}
    /\ inventory = {}
    /\ next_id = 1
    /\ applied = {}
    /\ calls = 0
    /\ pc = [w \in Workers |-> "idle"]
    /\ req = [w \in Workers |-> BaseReq(0, 0, 0, 1)]
    /\ existing = [w \in Workers |-> None]
    /\ tx = [w \in Workers |-> NoTx]
    /\ result = [w \in Workers |-> Pending]
    /\ find = NoFind
    /\ op = [w \in Workers |-> "none"]
    /\ del = NoDelete

\* ---------------------------------------------------------------- validation
\* mutant: the validation does not look at the unit price
ValidationErrorsSkipsPrice(r, t) ==
    {e \in {"record_no", "warehouse_id", "product_id", "quantity",
            "record_date_empty", "record_date_future"} :
        \/ e = "record_no" /\ IsBlank(r.record_no)
        \/ e = "warehouse_id" /\ r.warehouse_id = 0
        \/ e = "product_id" /\ r.product_id = 0
        \/ e = "quantity" /\ r.quantity <= 0
        \/ e = "record_date_empty" /\ IsNone(r.record_date)
        \/ e = "record_date_future" /\ ~IsNone(r.record_date) /\ Val(r.record_date) > t}

\* StockService.validate_stock_record: the set of violated rules
ValidationErrors(r, t) ==
    {e \in {"record_no", "record_type", "warehouse_id", "product_id", "quantity",
            "unit_price", "record_date_empty", "record_date_future"} :
        \/ e = "record_no" /\ IsBlank(r.record_no)
        \/ e = "record_type" /\ r.record_type \notin {1, 2}
        \/ e = "warehouse_id" /\ r.warehouse_id = 0
        \/ e = "product_id" /\ r.product_id = 0
        \/ e = "quantity" /\ r.quantity <= 0
        \/ e = "unit_price" /\ ~IsNone(r.unit_price) /\ Val(r.unit_price) < 0
        \/ e = "record_date_empty" /\ IsNone(r.record_date)
        \/ e = "record_date_future" /\ ~IsNone(r.record_date) /\ Val(r.record_date) > t}

\* StockRecord.calculate_total_amount: sets total_amount only when quantity and
\* unit_price are both truthy; otherwise the attribute keeps its value.
CalculateTotalAmount(r) ==
    IF r.quantity # 0 /\ Truthy(r.unit_price)
    THEN [r EXCEPT !.total_amount = Some(r.quantity * Val(r.unit_price))]
    ELSE r

\* mutant: the pre-check lets a pair without row pass
CheckStockPassesMissingRow(inv, wh, pr, q) ==
    \/ InvRows(inv, wh, pr) = {}
    \/ \E r \in InvRows(inv, wh, pr) : r.quantity >= q

\* mutant: the pre-check wants more than the requested quantity in stock
CheckStockStrict(inv, wh, pr, q) ==
    \E r \in InvRows(inv, wh, pr) : r.quantity > q

\* InventoryDAO.check_stock
CheckStock(inv, wh, pr, q) ==
    \E r \in InvRows(inv, wh, pr) : r.quantity >= q

\* mutant: an inbound movement overwrites the quantity instead of adding to it
NewQuantityInOverwrites(old, q) == q

\* new_quantity = existing['quantity'] + quantity
NewQuantityIn(old, q) == old + q

\* mutant: an outbound movement takes what is there when it asks for more
NewQuantityOutClamped(old, q) == IF old < q THEN 0 ELSE old - q

\* new_quantity = existing['quantity'] - quantity
NewQuantityOut(old, q) == old - q

\* mutant: the balance step does not check the new quantity
RejectedNever(new_quantity) == FALSE

\* the guard `if new_quantity < 0: raise`
Rejected(new_quantity) == new_quantity < 0

\* ------------------------------------------------------------ what callers pass
\* record numbers a caller may put on the request himself
SuppliedNos(d) ==
    {Prefix(1, d) \o <<0, 0, 0, 2>>, Prefix(2, d) \o <<0, 0, 0, 2>>}

\* requests of the concurrent runs: valid movements on two pairs, with a
\* generated or a supplied record number
Requests(d) ==
    {BaseReq(1, p, q, d) : p \in {1, 2}, q \in 1..MaxQty}
    \cup {[BaseReq(1, 1, 1, d) EXCEPT !.record_no = n] : n \in SuppliedNos(d)}

\* requests of the sequential runs: valid movements on two pairs, every record
\* number generated
RequestsSeq(d) ==
    {BaseReq(1, p, q, d) : p \in {1, 2}, q \in 1..MaxQty}

\* the forms a request can take: with a price, with a total put by the caller,
\* with a record_type put by the caller, with shape errors (a blank record
\* number among them) and with bad references
RequestsForms(d) ==
    {BaseReq(1, 1, q, d) : q \in 1..MaxQty}
    \cup {[BaseReq(1, 1, MaxQty, d) EXCEPT !.unit_price = pr, !.total_amount = ta] :
            pr \in {None, Some(0), Some(3)}, ta \in {None, Some(7)}}
    \cup {BaseReq(1, 1, 0, d), BaseReq(0, 0, 1, d + 1),
          [BaseReq(1, 1, 1, d) EXCEPT !.unit_price = Some(0 - 1)],
          [BaseReq(1, 1, 1, d) EXCEPT !.record_date = None],
          [BaseReq(1, 1, 0, d) EXCEPT !.record_no = <<ChSpace, ChSpace>>]}
    \cup {BaseReq(wh, 1, 1, d) : wh \in {2, 3}}
    \cup {BaseReq(1, pr, 1, d) : pr \in {3, 4}}
    \cup {BaseReq(2, 3, 0, d), BaseReq(3, 4, 1, d), BaseReq(2, 4, 1, d)}
    \cup {[BaseReq(1, 1, 1, d) EXCEPT !.record_type = t, !.unit_price = Some(1)] :
            t \in {1, 2}}

\* ------------------------------------------------------------------ the posts
Goto(w, where) == pc' = [pc EXCEPT ![w] = where]

\* the call raises: the exception reaches the caller
Raise(w, failure) ==
    /\ result' = [result EXCEPT ![w] = failure]
    /\ Goto(w, "done")

\* mutant: add_in_stock keeps a record_type the caller has set
AddInStockKeepsType(w, Rs, limit) ==
    /\ pc[w] \in {"idle", "done"}
    /\ calls < limit
    /\ \E r \in Rs :
        req' = [req EXCEPT ![w] = IF r.record_type = 0
                                  THEN [r EXCEPT !.record_type = 1] ELSE r]
    /\ op' = [op EXCEPT ![w] = "add_in_stock"]
    /\ calls' = calls + 1
    /\ existing' = [existing EXCEPT ![w] = None]
    /\ result' = [result EXCEPT ![w] = Pending]
    /\ Goto(w, "generate")
    /\ UNCHANGED <<now, warehouse, product, del, find, db, tx>>

\* add_in_stock(stock_record): record_type = 1
AddInStock(w, Rs, limit) ==
    /\ pc[w] \in {"idle", "done"}
    /\ calls < limit
    /\ \E r \in Rs :
        req' = [req EXCEPT ![w] = [r EXCEPT !.record_type = 1]]
    /\ op' = [op EXCEPT ![w] = "add_in_stock"]
    /\ calls' = calls + 1
    /\ existing' = [existing EXCEPT ![w] = None]
    /\ result' = [result EXCEPT ![w] = Pending]
    /\ Goto(w, "generate")
    /\ UNCHANGED <<now, warehouse, product, del, find, db, tx>>

\* add_out_stock(stock_record): record_type = 2
AddOutStock(w, Rs, limit) ==
    /\ pc[w] \in {"idle", "done"}
    /\ calls < limit
    /\ \E r \in Rs :
        req' = [req EXCEPT ![w] = [r EXCEPT !.record_type = 2]]
    /\ op' = [op EXCEPT ![w] = "add_out_stock"]
    /\ calls' = calls + 1
    /\ existing' = [existing EXCEPT ![w] = None]
    /\ result' = [result EXCEPT ![w] = Pending]
    /\ Goto(w, "generate")
    /\ UNCHANGED <<now, warehouse, product, del, find, db, tx>>

\* if not stock_record.record_no: stock_record.record_no = generate_record_no(type)
Generate(w) ==
    /\ pc[w] = "generate"
    /\ LET g == GenerateRecordNo(stock_record, req[w].record_type, now)
       IN  IF req[w].record_no # <<>>
           THEN /\ Goto(w, "validate")
                /\ UNCHANGED <<req, result>>
           ELSE IF g[1] = "ok"
           THEN /\ req' = [req EXCEPT ![w].record_no = g[2]]
                /\ Goto(w, "validate")
                /\ UNCHANGED result
           ELSE /\ Raise(w, Failure("ValueError"))
                /\ UNCHANGED req
    /\ UNCHANGED <<now, warehouse, product, del, find, op, db, calls, existing, tx>>

\* is_valid, errors = validate_stock_record(...); raise ValueError when invalid
Validate(w) ==
    /\ pc[w] = "validate"
    /\ LET errs == ValidationErrors(req[w], now)
       IN  IF errs # {}
           THEN Raise(w, ValidationFailed(errs))
           ELSE Goto(w, "warehouse") /\ UNCHANGED result
    /\ UNCHANGED <<now, warehouse, product, del, find, op, db, calls, req, existing, tx>>

\* mutant: a disabled warehouse or product passes
DisabledNever(x) == FALSE

\* `if warehouse.status != 1` / `if product.status != 1`
Disabled(x) == x.status # 1

\* mutant: the post does not look at the warehouse
CheckWarehouseSkipped(w) ==
    /\ pc[w] = "warehouse"
    /\ Goto(w, "product")
    /\ UNCHANGED <<now, warehouse, product, del, find, op, db, calls, req, existing, tx, result>>

\* warehouse_dao.get_by_id: must exist with status 1
CheckWarehouse(w) ==
    /\ pc[w] = "warehouse"
    /\ LET found == {x \in warehouse : x.id = req[w].warehouse_id}
       IN  IF found = {} THEN Raise(w, Failure("WarehouseNotFound"))
           ELSE IF \E x \in found : Disabled(x)
           THEN Raise(w, Failure("WarehouseDisabled"))
           ELSE Goto(w, "product") /\ UNCHANGED result
    /\ UNCHANGED <<now, warehouse, product, del, find, op, db, calls, req, existing, tx>>

\* product_dao.get_by_id: must exist with status 1; an inbound movement then
\* computes its total and goes on to the transaction
CheckProduct(w) ==
    /\ pc[w] = "product"
    /\ LET found == {x \in product : x.id = req[w].product_id}
       IN  IF found = {}
           THEN Raise(w, Failure("ProductNotFound")) /\ UNCHANGED req
           ELSE IF \E x \in found : Disabled(x)
           THEN Raise(w, Failure("ProductDisabled")) /\ UNCHANGED req
           ELSE IF req[w].record_type = 2
           THEN Goto(w, "precheck") /\ UNCHANGED <<req, result>>
           ELSE /\ req' = [req EXCEPT ![w] = CalculateTotalAmount(req[w])]
                /\ Goto(w, "insert")
                /\ UNCHANGED result
    /\ UNCHANGED <<now, warehouse, product, del, find, op, db, calls, existing, tx>>

\* outbound only: inventory_dao.check_stock on its own connection
PreCheck(w) ==
    /\ pc[w] = "precheck"
    /\ IF CheckStock(inventory, req[w].warehouse_id, req[w].product_id,
                     req[w].quantity)
       THEN /\ req' = [req EXCEPT ![w] = CalculateTotalAmount(req[w])]
            /\ Goto(w, "insert")
       ELSE Goto(w, "shortage") /\ UNCHANGED req
    /\ UNCHANGED <<now, warehouse, product, del, find, op, db, calls, existing, tx, result>>

\* the pre-check failed: a second read fetches the quantity for the message
\* (0 when the pair has no row), then the call raises
ReportShortage(w) ==
    /\ pc[w] = "shortage"
    /\ LET rows == InvRows(inventory, req[w].warehouse_id, req[w].product_id)
       IN  IF rows = {}
           THEN Raise(w, InsufficientStock(0, req[w].quantity))
           ELSE \E r \in rows :
                    Raise(w, InsufficientStock(r.quantity, req[w].quantity))
    /\ UNCHANGED <<now, warehouse, product, del, find, op, db, calls, req, existing, tx>>

\* ------------------------------------------------------------ the transaction
\* the stock_record row of the INSERT statement, with the id the table assigns
LedgerRow(r, id) == [r EXCEPT !.id = Some(id)]

\* mutant: the first inbound movement creates the row with quantity 0
InvInsertEmpty(r) ==
    [op |-> "insert", warehouse_id |-> r.warehouse_id, product_id |-> r.product_id,
     quantity |-> 0, record_date |-> r.record_date]

\* the statement the balance step executes, as the change it makes
InvInsert(r) ==
    [op |-> "insert", warehouse_id |-> r.warehouse_id, product_id |-> r.product_id,
     quantity |-> r.quantity, record_date |-> r.record_date]
\* mutant: every UPDATE sets last_in_date
InvUpdateAlwaysIn(r, is_in, new_quantity) ==
    [op |-> "update_in",
     warehouse_id |-> r.warehouse_id, product_id |-> r.product_id,
     quantity |-> new_quantity, record_date |-> r.record_date]

\* UPDATE inventory SET quantity=%s, last_in_date=%s / last_out_date=%s WHERE ...
InvUpdate(r, is_in, new_quantity) ==
    [op |-> IF is_in THEN "update_in" ELSE "update_out",
     warehouse_id |-> r.warehouse_id, product_id |-> r.product_id,
     quantity |-> new_quantity, record_date |-> r.record_date]

\* mutant: the UPDATE has no WHERE clause
ApplyInvNoWhere(inv, s) ==
    IF s.op = "insert"
    THEN inv \cup {[id |-> Cardinality(inv) + 1,
                    warehouse_id |-> s.warehouse_id, product_id |-> s.product_id,
                    quantity |-> s.quantity, last_in_date |-> s.record_date,
                    last_out_date |-> None]}
    ELSE {IF s.op = "update_in"
          THEN [r EXCEPT !.quantity = s.quantity, !.last_in_date = s.record_date]
          ELSE [r EXCEPT !.quantity = s.quantity, !.last_out_date = s.record_date]
          : r \in inv}

\* the inventory table after statement s; an inserted row gets the next id of
\* the table (no post deletes a row, so the row count numbers them)
ApplyInv(inv, s) ==
    IF s.op = "insert"
    THEN inv \cup {[id |-> Cardinality(inv) + 1,
                    warehouse_id |-> s.warehouse_id, product_id |-> s.product_id,
                    quantity |-> s.quantity, last_in_date |-> s.record_date,
                    last_out_date |-> None]}
    ELSE {IF r.warehouse_id = s.warehouse_id /\ r.product_id = s.product_id
          THEN IF s.op = "update_in"
               THEN [r EXCEPT !.quantity = s.quantity, !.last_in_date = s.record_date]
               ELSE [r EXCEPT !.quantity = s.quantity, !.last_out_date = s.record_date]
          ELSE r : r \in inv}

\* connection.rollback(): the uncommitted writes of the connection are dropped
Rollback(w) == tx' = [tx EXCEPT ![w] = NoTx]

\* another connection holds an uncommitted row with this record number
RecordNoLocked(w, no) ==
    \E v \in Workers \ {w} : ~IsNone(tx[v].rec) /\ Val(tx[v].rec).record_no = no

\* another connection holds an uncommitted write on the pair's inventory row
PairLocked(w, wh, pr) ==
    \E v \in Workers \ {w} :
        /\ ~IsNone(tx[v].inv)
        /\ Val(tx[v].inv).warehouse_id = wh
        /\ Val(tx[v].inv).product_id = pr

\* get_connection(); INSERT INTO stock_record ...; stock_record.id = lastrowid
InsertRecord(w) ==
    /\ pc[w] = "insert"
    /\ ~(UniqueRecordNo /\ RecordNoLocked(w, req[w].record_no))
    /\ IF UniqueRecordNo /\ \E r \in stock_record : r.record_no = req[w].record_no
       THEN /\ Raise(w, Failure("DuplicateRecordNo"))
            /\ Rollback(w)
            /\ UNCHANGED <<req, db>>
       ELSE /\ req' = [req EXCEPT ![w].id = Some(next_id)]
            /\ next_id' = next_id + 1
            /\ IF Autocommit
               THEN /\ stock_record' = stock_record \cup {LedgerRow(req[w], next_id)}
                    /\ UNCHANGED tx
               ELSE /\ tx' = [tx EXCEPT ![w].rec = Some(LedgerRow(req[w], next_id))]
                    /\ UNCHANGED stock_record
            /\ Goto(w, "select")
            /\ UNCHANGED <<inventory, applied, result>>
    /\ UNCHANGED <<now, warehouse, product, del, find, op, calls, existing>>

\* mutant: the SELECT of the balance step never finds the row
SelectInventoryMisses(w) ==
    /\ pc[w] = "select"
    /\ existing' = [existing EXCEPT ![w] = None]
    /\ Goto(w, "write")
    /\ UNCHANGED <<now, warehouse, product, del, find, op, db, calls, req, tx, result>>

\* _update_inventory_in_transaction: SELECT id, quantity FROM inventory WHERE ...
SelectInventory(w) ==
    /\ pc[w] = "select"
    /\ LET rows == InvRows(inventory, req[w].warehouse_id, req[w].product_id)
       IN  IF rows = {}
           THEN existing' = [existing EXCEPT ![w] = None]
           ELSE \E r \in rows : existing' = [existing EXCEPT ![w] = Some(r.quantity)]
    /\ Goto(w, "write")
    /\ UNCHANGED <<now, warehouse, product, del, find, op, db, calls, req, tx, result>>

\* mutant: the balance step runs the statement on a connection of its own and
\* commits it there
ExecuteAndCommit(w, s) ==
    /\ inventory' = ApplyInv(inventory, s)
    /\ applied' = applied \cup {Val(req[w].id)}
    /\ UNCHANGED tx

\* the statement goes into the connection's transaction, or, with autocommit,
\* straight into the table
Execute(w, s) ==
    IF Autocommit
    THEN /\ inventory' = ApplyInv(inventory, s)
         /\ applied' = applied \cup {Val(req[w].id)}
         /\ UNCHANGED tx
    ELSE /\ tx' = [tx EXCEPT ![w].inv = Some(s)]
         /\ UNCHANGED <<inventory, applied>>

\* _update_inventory_in_transaction after the SELECT: UPDATE the existing row
\* with the quantity computed from the fetched one, or INSERT the first row
WriteInventory(w) ==
    /\ pc[w] = "write"
    /\ LET r == req[w]
           is_in == r.record_type = 1
           old == Val(existing[w])
       IN  IF ~IsNone(existing[w])
           THEN IF is_in
                THEN /\ ~PairLocked(w, r.warehouse_id, r.product_id)
                     /\ Execute(w, InvUpdate(r, TRUE, NewQuantityIn(old, r.quantity)))
                     /\ Goto(w, "commit")
                     /\ UNCHANGED result
                ELSE IF Rejected(NewQuantityOut(old, r.quantity))
                THEN /\ Raise(w, InsufficientStock(old, r.quantity))
                     /\ Rollback(w)
                     /\ UNCHANGED <<inventory, applied>>
                ELSE /\ ~PairLocked(w, r.warehouse_id, r.product_id)
                     /\ Execute(w, InvUpdate(r, FALSE, NewQuantityOut(old, r.quantity)))
                     /\ Goto(w, "commit")
                     /\ UNCHANGED result
           ELSE IF ~is_in
                THEN /\ Raise(w, Failure("NoSuchBalance"))
                     /\ Rollback(w)
                     /\ UNCHANGED <<inventory, applied>>
                ELSE /\ ~(UniqueInventoryKey /\ PairLocked(w, r.warehouse_id, r.product_id))
                     /\ IF UniqueInventoryKey
                           /\ InvRows(inventory, r.warehouse_id, r.product_id) # {}
                        THEN /\ Raise(w, Failure("DuplicateInventoryKey"))
                             /\ Rollback(w)
                             /\ UNCHANGED <<inventory, applied>>
                        ELSE /\ Execute(w, InvInsert(r))
                             /\ Goto(w, "commit")
                             /\ UNCHANGED result
    /\ UNCHANGED <<now, warehouse, product, del, find, op, stock_record, next_id, calls, req, existing>>

\* connection.commit(): the ledger row and the inventory change become visible
\* together; the call returns the StockRecord
Commit(w) ==
    /\ pc[w] = "commit"
    /\ stock_record' = IF IsNone(tx[w].rec) THEN stock_record
                       ELSE stock_record \cup {Val(tx[w].rec)}
    /\ inventory' = IF IsNone(tx[w].inv) THEN inventory
                    ELSE ApplyInv(inventory, Val(tx[w].inv))
    /\ applied' = IF IsNone(tx[w].inv) THEN applied
                  ELSE applied \cup {Val(req[w].id)}
    /\ tx' = [tx EXCEPT ![w] = NoTx]
    /\ result' = [result EXCEPT ![w] = Ok]
    /\ Goto(w, "done")
    /\ UNCHANGED <<now, warehouse, product, del, find, op, next_id, calls, req, existing>>

\* a statement of the transaction, or the commit, raises a storage error:
\* except Exception: connection.rollback(); raise
StorageError(w) ==
    /\ pc[w] \in {"insert", "select", "write", "commit"}
    /\ Rollback(w)
    /\ Raise(w, Failure("StorageError"))
    /\ UNCHANGED <<now, warehouse, product, del, find, op, db, calls, req, existing>>

\* the clock moves on to the next day
Tick ==
    /\ now < MaxDay
    /\ now' = now + 1
    /\ UNCHANGED <<warehouse, product, del, find, op, db, calls, pc, req, existing, tx, result>>

\* -------------------------------------------------------------- the DAO
\* abs(quantity_change)
Abs(n) == IF n < 0 THEN 0 - n ELSE n

\* InventoryDAO.update_quantity(warehouse_id, product_id, quantity_change,
\* is_in, record_date), called between two posts: SELECT, then UPDATE or
\* INSERT, then commit, on a connection of its own; rollback when it raises
UpdateQuantity(wh, pr, quantity_change, is_in, d, limit) ==
    /\ \A w \in Workers : pc[w] \in {"idle", "done"}
    /\ calls < limit
    /\ calls' = calls + 1
    /\ LET rows == InvRows(inventory, wh, pr)
           statement(kind, q) ==
               [op |-> kind, warehouse_id |-> wh, product_id |-> pr,
                quantity |-> q, record_date |-> d]
       IN  IF rows # {}
           THEN \E r \in rows :
                    LET new_quantity == r.quantity + quantity_change
                    IN  IF new_quantity < 0
                        THEN /\ result' = [result EXCEPT ![1] =
                                    InsufficientStock(r.quantity, Abs(quantity_change))]
                             /\ UNCHANGED inventory
                        ELSE /\ inventory' = ApplyInv(inventory,
                                    statement(IF is_in THEN "update_in" ELSE "update_out",
                                              new_quantity))
                             /\ result' = [result EXCEPT ![1] = Ok]
           ELSE IF ~is_in
                THEN /\ result' = [result EXCEPT ![1] = Failure("NoSuchBalance")]
                     /\ UNCHANGED inventory
                ELSE /\ inventory' = ApplyInv(inventory,
                                              statement("insert", quantity_change))
                     /\ result' = [result EXCEPT ![1] = Ok]
    /\ op' = [op EXCEPT ![1] = "update_quantity"]
    /\ pc' = [pc EXCEPT ![1] = "done"]
    /\ UNCHANGED <<now, warehouse, product, del, find, stock_record, next_id, applied,
                   req, existing, tx>>

\* ---------------------------------------------------------------- searches
\* column LIKE '%sub%'
Contains(s, sub) ==
    \E i \in 0..(Len(s) - Len(sub)) : SubSeq(s, i + 1, i + Len(sub)) = sub

\* ORDER BY record_date DESC, id DESC: row x comes before row y
Before(x, y) ==
    \/ Val(x.record_date) > Val(y.record_date)
    \/ Val(x.record_date) = Val(y.record_date) /\ Val(x.id) > Val(y.id)

RECURSIVE OrderBy(_)
OrderBy(S) ==
    IF S = {} THEN <<>>
    ELSE LET first == CHOOSE x \in S : \A y \in S \ {x} : Before(x, y)
         IN  <<first>> \o OrderBy(S \ {first})

\* the WHERE clause search_stock_records builds: one condition per truthy key;
\* a comparison with a NULL column selects nothing
SearchWhere(r, c) ==
    /\ c.warehouse_id # 0 => r.warehouse_id = c.warehouse_id
    /\ c.product_id # 0 => r.product_id = c.product_id
    /\ c.record_type # 0 => r.record_type = c.record_type
    /\ ~IsNone(c.start_date) => Val(r.record_date) >= Val(c.start_date)
    /\ ~IsNone(c.end_date) => Val(r.record_date) <= Val(c.end_date)
    /\ c.record_no # <<>> => Contains(r.record_no, c.record_no)
    /\ c.operator # <<>> =>
          ~IsNone(r.operator) /\ Contains(Val(r.operator), c.operator)

\* the WHERE clause query_stock_records builds
QueryWhere(r, c) ==
    /\ c.warehouse_id # 0 => r.warehouse_id = c.warehouse_id
    /\ c.product_id # 0 => r.product_id = c.product_id
    /\ c.supplier_client_id # 0 => r.supplier_client_id = Some(c.supplier_client_id)
    /\ c.record_type # 0 => r.record_type = c.record_type
    /\ ~IsNone(c.start_date) => Val(r.record_date) >= Val(c.start_date)
    /\ ~IsNone(c.end_date) => Val(r.record_date) <= Val(c.end_date)
    /\ c.record_no # <<>> => Contains(r.record_no, c.record_no)
    /\ c.operator # <<>> =>
          ~IsNone(r.operator) /\ Contains(Val(r.operator), c.operator)

\* StockService.search_stock_records(conditions)
SearchStockRecords(rows, c) == OrderBy({r \in rows : SearchWhere(r, c)})

\* QueryService.query_stock_records(conditions)
QueryStockRecords(rows, c) == OrderBy({r \in rows : QueryWhere(r, c)})

\* a caller between two posts searches the ledger through StockService; the
\* SELECT runs on a connection of its own and sees the committed rows
Search(Cs) ==
    /\ \A w \in Workers : pc[w] \in {"idle", "done"}
    /\ \E c \in Cs :
          find' = [op |-> "search_stock_records", conditions |-> c,
                   records |-> SearchStockRecords(stock_record, c)]
    /\ UNCHANGED <<now, warehouse, product, del, db, op, calls, pc, req, existing, tx, result>>

\* the same through QueryService
Query(Cs) ==
    /\ \A w \in Workers : pc[w] \in {"idle", "done"}
    /\ \E c \in Cs :
          find' = [op |-> "query_stock_records", conditions |-> c,
                   records |-> QueryStockRecords(stock_record, c)]
    /\ UNCHANGED <<now, warehouse, product, del, db, op, calls, pc, req, existing, tx, result>>

\* ----------------------------------------------------------- specifications
Step(w) ==
    \/ Generate(w)
    \/ Validate(w)
    \/ CheckWarehouse(w)
    \/ CheckProduct(w)
    \/ PreCheck(w)
    \/ ReportShortage(w)
    \/ InsertRecord(w)
    \/ SelectInventory(w)
    \/ WriteInventory(w)
    \/ Commit(w)
    \/ StorageError(w)

\* the tables after one committed inbound movement of MaxQty units on pair (1, 1)
StockedRow ==
    [id |-> Some(1), record_no |-> Prefix(1, 1) \o Format04d(1), record_type |-> 1,
     warehouse_id |-> 1, product_id |-> 1, quantity |-> MaxQty,
     unit_price |-> None, total_amount |-> None,
     supplier_client_id |-> None, operator |-> None, record_date |-> Some(1)]

InitStocked ==
    /\ now = 1
    /\ warehouse = {[id |-> 1, status |-> 1], [id |-> 2, status |-> 0]}
    /\ product = {[id |-> 1, status |-> 1], [id |-> 2, status |-> 1],
                  [id |-> 3, status |-> 0]}
    /\ stock_record = {StockedRow}
    /\ inventory = ApplyInv({}, InvInsert(StockedRow))
    /\ next_id = 2
    /\ applied = {1}
    /\ calls = 0
    /\ pc = [w \in Workers |-> "idle"]
    /\ req = [w \in Workers |-> BaseReq(0, 0, 0, 1)]
    /\ existing = [w \in Workers |-> None]
    /\ tx = [w \in Workers |-> NoTx]
    /\ result = [w \in Workers |-> Pending]
    /\ find = NoFind
    /\ op = [w \in Workers |-> "none"]
    /\ del = NoDelete

\* concurrent posts on the stocked tables: every worker runs its calls on its
\* own connection
Next ==
    \E w \in Workers :
        \/ AddInStock(w, Requests(now), MaxCalls)
        \/ AddOutStock(w, Requests(now), MaxCalls)
        \/ Step(w)

Spec == InitStocked /\ [][Next]_vars

\* sequential posts: one caller, each call ends before the next starts
NextSeq ==
    \/ AddInStock(1, RequestsSeq(now), MaxCallsSeq)
    \/ AddOutStock(1, RequestsSeq(now), MaxCallsSeq)
    \/ Step(1)

SpecSeq == Init /\ [][NextSeq]_vars

\* sequential posts over several days: movements of one unit on pair (1, 1),
\* every record number generated
RequestsDays(d) == {BaseReq(1, 1, 1, d)}

NextDays ==
    \/ Tick
    \/ AddInStock(1, RequestsDays(now), MaxCallsDays)
    \/ AddOutStock(1, RequestsDays(now), MaxCallsDays)
    \/ Step(1)

SpecDays == Init /\ [][NextDays]_vars

\* sequential posts of requests of every form
NextForms ==
    \/ AddInStock(1, RequestsForms(now), MaxCallsForms)
    \/ AddOutStock(1, RequestsForms(now), MaxCallsForms)
    \/ Step(1)

SpecForms == Init /\ [][NextForms]_vars

\* the same, where a call that has started runs on to its end
SpecFormsFair == SpecForms /\ WF_vars(Step(1))

\* two outbound calls race on pair (1, 1) of the stocked tables; each worker
\* makes one call
RaceRequests(d) ==
    {[BaseReq(1, 1, q, d) EXCEPT !.record_no = n] :
        q \in 1..MaxQty, n \in {None, Prefix(2, d) \o <<0, 0, 0, 2>>}}

NextRace ==
    \E w \in Workers :
        \/ pc[w] = "idle" /\ AddOutStock(w, RaceRequests(now), Cardinality(Workers))
        \/ Step(w)

SpecRace == InitStocked /\ [][NextRace]_vars

\* two first movements race on pair (1, 1) of the empty tables; each worker
\* makes one call, with a generated or a supplied record number
FirstRequests(d) ==
    {[BaseReq(1, 1, q, d) EXCEPT !.record_no = n] :
        q \in 1..MaxQty, n \in {None, Prefix(1, d) \o <<0, 0, 0, 2>>}}

NextFirst ==
    \E w \in Workers :
        \/ pc[w] = "idle" /\ AddInStock(w, FirstRequests(now), Cardinality(Workers))
        \/ pc[w] = "idle" /\ AddOutStock(w, FirstRequests(now), Cardinality(Workers))
        \/ Step(w)

SpecFirst == Init /\ [][NextFirst]_vars

\* sequential posts over several days, with a counterparty and an operator,
\* dated today or earlier, and searches of the ledger between them
RequestsFind(d) ==
    {[BaseReq(1, 1, 1, e) EXCEPT !.supplier_client_id = Some(1),
                                 !.operator = Some(<<ChK, ChR>>)] : e \in 1..d}
    \cup {[BaseReq(1, 2, 1, e) EXCEPT !.supplier_client_id = Some(2),
                                      !.operator = Some(<<ChR, ChS>>)] : e \in 1..d}
    \cup {BaseReq(1, 1, 1, d)}

\* the conditions of the searches: no key, each key alone, and keys together
FindConditions ==
    {NoConditions,
     [NoConditions EXCEPT !.warehouse_id = 1],
     [NoConditions EXCEPT !.product_id = 2],
     [NoConditions EXCEPT !.supplier_client_id = 1],
     [NoConditions EXCEPT !.record_type = 2],
     [NoConditions EXCEPT !.start_date = Some(MaxDay)],
     [NoConditions EXCEPT !.end_date = Some(1)],
     [NoConditions EXCEPT !.record_no = <<0, 0, 2>>],
     [NoConditions EXCEPT !.operator = <<ChR>>],
     [NoConditions EXCEPT !.operator = <<ChK, ChR>>],
     [NoConditions EXCEPT !.product_id = 1, !.record_type = 1,
                          !.start_date = Some(1), !.end_date = Some(1),
                          !.record_no = <<ChR, ChK>>]}

NextFind ==
    \/ Tick
    \/ AddInStock(1, RequestsFind(now), MaxCallsFind)
    \/ AddOutStock(1, RequestsFind(now), MaxCallsFind)
    \/ Step(1)
    \/ Search(FindConditions)
    \/ Query(FindConditions)

SpecFind == Init /\ [][NextFind]_vars

\* ------------------------------------------------- deleting master data
\* SELECT COUNT(*) FROM <rows> WHERE warehouse_id=%s (WarehouseDAO) or
\* WHERE product_id=%s (ProductDAO)
RefCount(rows, t, id) ==
    Cardinality({r \in rows : IF t = "warehouse" THEN r.warehouse_id = id
                                                  ELSE r.product_id = id})

\* WarehouseDAO.delete(id) or ProductDAO.delete(id) is called
Delete(t, id) ==
    /\ del.pc \in {"idle", "done"}
    /\ del.n < MaxDeletes
    /\ del' = [pc |-> "ref_inventory", table |-> t, id |-> id, count1 |-> 0,
               result |-> "none", n |-> del.n + 1]
    /\ UNCHANGED <<now, warehouse, product, db, calls, pc, req, existing, tx,
                   result, find, op>>

\* check_reference, first read: the inventory rows that refer to the id
CheckReferenceInventory ==
    /\ del.pc = "ref_inventory"
    /\ del' = [del EXCEPT !.count1 = RefCount(inventory, del.table, del.id),
                          !.pc = "ref_stock_record"]
    /\ UNCHANGED <<now, warehouse, product, db, calls, pc, req, existing, tx,
                   result, find, op>>

\* check_reference, second read: the stock_record rows that refer to the id;
\* delete raises when the two counts together are above 0
CheckReferenceStockRecord ==
    /\ del.pc = "ref_stock_record"
    /\ LET count2 == RefCount(stock_record, del.table, del.id)
       IN  IF del.count1 + count2 > 0
           THEN del' = [del EXCEPT !.pc = "done", !.result = "referenced"]
           ELSE del' = [del EXCEPT !.pc = "delete"]
    /\ UNCHANGED <<now, warehouse, product, db, calls, pc, req, existing, tx,
                   result, find, op>>

\* DELETE FROM warehouse WHERE id=%s / DELETE FROM product WHERE id=%s,
\* committed by execute_update; returns affected_rows > 0
ExecuteDelete ==
    /\ del.pc = "delete"
    /\ IF del.table = "warehouse"
       THEN /\ warehouse' = {r \in warehouse : r.id # del.id}
            /\ del' = [del EXCEPT !.pc = "done", !.result =
                          IF \E r \in warehouse : r.id = del.id
                          THEN "deleted" ELSE "nothing"]
            /\ UNCHANGED product
       ELSE /\ product' = {r \in product : r.id # del.id}
            /\ del' = [del EXCEPT !.pc = "done", !.result =
                          IF \E r \in product : r.id = del.id
                          THEN "deleted" ELSE "nothing"]
            /\ UNCHANGED warehouse
    /\ UNCHANGED <<now, db, calls, pc, req, existing, tx, result, find, op>>

\* posts of one unit on pair (1, 1) by one worker, interleaved with deletes of
\* warehouses and products
RequestsDelete(d) == {BaseReq(1, 1, 1, d)}

NextDelete ==
    \/ AddInStock(1, RequestsDelete(now), MaxCallsDelete)
    \/ AddOutStock(1, RequestsDelete(now), MaxCallsDelete)
    \/ Step(1)
    \/ \E t \in {"warehouse", "product"}, id \in {1, 2} : Delete(t, id)
    \/ CheckReferenceInventory
    \/ CheckReferenceStockRecord
    \/ ExecuteDelete

SpecDelete == Init /\ [][NextDelete]_vars

\* sequential posts of one unit on pair (1, 1) whose record number is generated
\* or is the last four-digit number of the day, supplied by the caller
RequestsGen(d) ==
    {[BaseReq(1, 1, 1, d) EXCEPT !.record_no = n] :
        n \in {None, Prefix(1, d) \o <<9, 9, 9, 9>>}}

NextGen ==
    \/ AddInStock(1, RequestsGen(now), MaxCallsGen)
    \/ AddOutStock(1, RequestsGen(now), MaxCallsGen)
    \/ Step(1)

SpecGen == Init /\ [][NextGen]_vars

\* calls of InventoryDAO.update_quantity over several days, with every sign of
\* quantity_change, both values of is_in, with and without a record_date
NextDao ==
    \/ Tick
    \/ \E pr \in {1, 2}, quantity_change \in (0 - MaxQty)..MaxQty,
          is_in \in BOOLEAN, d \in {None, Some(now)} :
            UpdateQuantity(1, pr, quantity_change, is_in, d, MaxCallsDao)

SpecDao == Init /\ [][NextDao]_vars

\* ------------------------------------------------------------------ the ledger
RECURSIVE SumQty(_)
SumQty(S) ==
    IF S = {} THEN 0
    ELSE LET r == CHOOSE x \in S : TRUE
         IN  r.quantity + SumQty(S \ {r})

Movements(wh, pr, record_type) ==
    {r \in stock_record : r.warehouse_id = wh /\ r.product_id = pr
                          /\ r.record_type = record_type}

\* inbound minus outbound quantity of the committed movements of a pair
LedgerSum(wh, pr) == SumQty(Movements(wh, pr, 1)) - SumQty(Movements(wh, pr, 2))

\* the pair's balance: the quantity of its row, 0 without a row
Balance(inv, wh, pr) == SumQty(InvRows(inv, wh, pr))

WarehouseIds == 0..3
ProductIds == 0..4

\* ---------------------------------------------------------------------- C1
\* C1: under sequential posting, every pair's inventory row holds the inbound
\* minus the outbound quantity of the pair's committed movements, and a pair
\* without a committed movement has no inventory row.
InventoryMatchesLedger ==
    \A wh \in WarehouseIds, pr \in ProductIds :
        IF Movements(wh, pr, 1) \cup Movements(wh, pr, 2) = {}
        THEN InvRows(inventory, wh, pr) = {}
        ELSE /\ Cardinality(InvRows(inventory, wh, pr)) = 1
             /\ \A r \in InvRows(inventory, wh, pr) : r.quantity = LedgerSum(wh, pr)

\* two inbound movements and one outbound movement of a pair are committed
LedgerWithInAndOut ==
    /\ Cardinality(Movements(1, 1, 1)) = 2
    /\ Cardinality(Movements(1, 1, 2)) = 1
    /\ Balance(inventory, 1, 1) > 0

\* ---------------------------------------------------------------------- C2
\* C2: under every interleaving of posts no inventory row, committed or written
\* inside a running transaction, has a negative quantity.
QuantityNeverNegative ==
    /\ \A r \in inventory : r.quantity >= 0
    /\ \A w \in Workers : ~IsNone(tx[w].inv) => Val(tx[w].inv).quantity >= 0

\* concurrent outbound movements are committed that together take more from
\* pair (1, 1) than was ever put in, and the balance row is still there
OverdrawnByRace ==
    /\ SumQty(Movements(1, 1, 2)) > SumQty(Movements(1, 1, 1))
    /\ InvRows(inventory, 1, 1) # {}

\* ---------------------------------------------------------------------- C3
LedgerIds == {Val(r.id) : r \in stock_record}

\* C3: in every state other connections see, a movement's ledger row is there
\* exactly when its inventory change is there, and a call that failed has left
\* neither a ledger row nor an inventory change nor an open write behind.
LedgerAndBalanceTogether ==
    /\ LedgerIds = applied
    /\ \A w \in Workers :
        (pc[w] = "done" /\ result[w].kind # "ok") =>
            /\ tx[w] = NoTx
            /\ ~IsNone(req[w].id) =>
                  Val(req[w].id) \notin LedgerIds \cup applied

\* a call was rejected by the balance step, after its ledger INSERT had been
\* executed
FailedAfterInsert ==
    \E w \in Workers :
        /\ pc[w] = "done"
        /\ result[w].kind = "InsufficientStock"
        /\ ~IsNone(req[w].id)

\* ---------------------------------------------------------------------- C4
\* C4: of two outbound calls on the same pair, each within the balance and
\* together above it, exactly one commits and the other fails with
\* InsufficientStock (runs with a storage error or a record-number conflict
\* are left aside).
ExactlyOneOutboundCommits ==
    (/\ pc[1] = "done" /\ pc[2] = "done"
     /\ req[1].quantity + req[2].quantity > MaxQty
     /\ {result[1].kind, result[2].kind} \cap {"StorageError", "DuplicateRecordNo"} = {})
    => {result[1].kind, result[2].kind} = {"ok", "InsufficientStock"}

\* ---------------------------------------------------------------------- C5
\* the signed quantity of the movement of worker w
Signed(w) == IF req[w].record_type = 1 THEN req[w].quantity ELSE 0 - req[w].quantity

\* C5: no lost update: every commit of a movement changes the balance of its
\* pair by exactly the movement's signed quantity, whatever committed while the
\* movement's transaction was open.
NoLostUpdate ==
    [][\A w \in Workers :
          (pc[w] = "commit" /\ pc'[w] = "done" /\ result'[w].kind = "ok") =>
              Balance(inventory', req[w].warehouse_id, req[w].product_id)
                = Balance(inventory, req[w].warehouse_id, req[w].product_id) + Signed(w)]_vars

\* ---------------------------------------------------------------------- C6
tables == <<stock_record, inventory>>

\* the steps of a call that come before its transaction
PreTx == {"generate", "validate", "warehouse", "product", "precheck", "shortage"}

\* the pair of the outbound call of worker w has a row that holds less than the
\* call requests
Short(w) ==
    /\ req[w].record_type = 2
    /\ \E r \in InvRows(inventory, req[w].warehouse_id, req[w].product_id) :
          r.quantity < req[w].quantity

\* C6: an outbound call that requests more than the balance of its pair never
\* enters the transaction: it ends with InsufficientStock, reporting the balance
\* as current and the request's quantity as requested, and no step of it changes
\* a stock_record or inventory row.
ShortOutboundRejected ==
    [][/\ pc[1] \in PreTx => tables' = tables
       /\ (pc[1] = "precheck" /\ Short(1)) => pc'[1] \in {"precheck", "shortage"}
       /\ (pc[1] = "shortage" /\ Short(1)) =>
             \/ pc'[1] = "shortage"
             \/ /\ pc'[1] = "done"
                /\ result'[1].kind = "InsufficientStock"
                /\ result'[1].requested = req[1].quantity
                /\ result'[1].current = Balance(inventory, req[1].warehouse_id,
                                                req[1].product_id)]_vars

\* an outbound call on a stocked pair has been rejected for a shortage
ShortageReported ==
    /\ pc[1] = "done"
    /\ result[1].kind = "InsufficientStock"
    /\ result[1].current > 0
    /\ Short(1)

AmountOf(o) == IF IsNone(o) THEN 0 ELSE Val(o)

\* C8: the total_amount of every committed movement is quantity * unit_price
\* when the movement has a unit price and zero when it has none, whatever total
\* the caller put on the request.
TotalAmountRecomputed ==
    \A r \in stock_record :
        AmountOf(r.total_amount) =
            IF IsNone(r.unit_price) THEN 0 ELSE r.quantity * Val(r.unit_price)

\* ---------------------------------------------------------------------- C9
\* C9: no two committed stock_record rows carry the same record_no.
RecordNoUnique ==
    \A r1 \in stock_record, r2 \in stock_record :
        r1.record_no = r2.record_no => r1 = r2

\* two calls generated the same number at the same time: one is committed, the
\* other was refused
SameNumberRefused ==
    \E w \in Workers, v \in Workers :
        /\ w # v
        /\ pc[w] = "done" /\ result[w].kind = "DuplicateRecordNo"
        /\ pc[v] = "done" /\ result[v].kind = "ok"
        /\ req[w].record_no = req[v].record_no
        /\ \E r \in stock_record : r.record_no = req[v].record_no

\* --------------------------------------------------------------------- C10
\* the rows of one kind and day, by the prefix of their number
RowsOf(letters, d) ==
    {r \in stock_record : HasPrefix(r.record_no, letters \o DateStr(d))}

\* the rows of the set committed no later than r
Rank(rows, r) == Cardinality({x \in rows : Val(x.id) <= Val(r.id)})

\* C10: under sequential posting with generated numbers, the movements of each
\* kind and day carry the suffixes 0001, 0002, ... in commit order without gaps
\* (RK for inbound, CK for outbound, each counted on its own).
SequentialNumbering ==
    \A d \in Days :
        /\ \A r \in RowsOf(<<ChR, ChK>>, d) :
              /\ r.record_type = 1
              /\ r.record_no = <<ChR, ChK>> \o DateStr(d)
                               \o <<0, 0, 0, Rank(RowsOf(<<ChR, ChK>>, d), r)>>
        /\ \A r \in RowsOf(<<ChC, ChK>>, d) :
              /\ r.record_type = 2
              /\ r.record_no = <<ChC, ChK>> \o DateStr(d)
                               \o <<0, 0, 0, Rank(RowsOf(<<ChC, ChK>>, d), r)>>
        /\ stock_record = UNION {RowsOf(<<ChR, ChK>>, e) \cup RowsOf(<<ChC, ChK>>, e) :
                                    e \in Days}

\* two inbound movements of the first day, and an inbound and an outbound
\* movement of the second day, are committed
NumberedOverTwoDays ==
    /\ Cardinality(RowsOf(<<ChR, ChK>>, 1)) = 2
    /\ Cardinality(RowsOf(<<ChR, ChK>>, 2)) = 1
    /\ Cardinality(RowsOf(<<ChC, ChK>>, 2)) = 1

\* --------------------------------------------------------------------- C11
\* the ledger INSERT of worker w meets a committed row with its record number
NumberTaken(w) ==
    /\ pc[w] = "insert"
    /\ \E r \in stock_record : r.record_no = req[w].record_no

\* C11: a post whose ledger INSERT finds its record number taken does not end
\* with that failure: it drops the number and starts over at the generation of
\* a new one (the error surfaces only after a bounded number of such retries).
DuplicateRecordNoRetried ==
    [][\A w \in Workers :
          (NumberTaken(w) /\ pc'[w] # "insert" /\ result'[w].kind # "StorageError")
              => pc'[w] = "generate" /\ req'[w].record_no = None]_vars

\* --------------------------------------------------------------------- C12
\* the shape rules a request violates at time t
ViolatedRules(r, t) ==
    (IF IsBlank(r.record_no) THEN {"record_no"} ELSE {})
    \cup (IF r.warehouse_id = 0 THEN {"warehouse_id"} ELSE {})
    \cup (IF r.product_id = 0 THEN {"product_id"} ELSE {})
    \cup (IF r.quantity <= 0 THEN {"quantity"} ELSE {})
    \cup (IF r.unit_price # None /\ Val(r.unit_price) < 0 THEN {"unit_price"} ELSE {})
    \cup (IF r.record_date = None THEN {"record_date_empty"} ELSE {})
    \cup (IF r.record_date # None /\ Val(r.record_date) > t
          THEN {"record_date_future"} ELSE {})

\* C12: a request that, where the post validates it (an absent record number
\* has been generated by then), violates a shape rule ends the post with
\* ValidationFailed listing exactly the violated rules; no step of the post up
\* to and including the validation changes a stock_record or inventory row or
\* leaves a write open.
ShapeViolationRejected ==
    [][\A w \in Workers :
          /\ pc[w] \in {"idle", "done", "generate", "validate"} /\ pc'[w] # pc[w]
                => tables' = tables /\ tx'[w] = NoTx
          /\ (pc[w] = "validate" /\ ViolatedRules(req[w], now) # {}) =>
                \/ pc'[w] = "validate"
                \/ /\ pc'[w] = "done"
                   /\ result'[w].kind = "ValidationFailed"
                   /\ result'[w].errors = ViolatedRules(req[w], now)]_vars

\* after a committed movement, a request with a blank record number and no
\* quantity was rejected for both
BlankNumberAndQuantityRejected ==
    /\ pc[1] = "done"
    /\ result[1].kind = "ValidationFailed"
    /\ result[1].errors = {"record_no", "quantity"}
    /\ Cardinality(stock_record) = 1
    /\ Cardinality(inventory) = 1

\* --------------------------------------------------------------------- C13
\* the request names no warehouse / no product in active status
BadWarehouse(r) == ~\E x \in warehouse : x.id = r.warehouse_id /\ x.status = 1
BadProduct(r) == ~\E x \in product : x.id = r.product_id /\ x.status = 1

\* C13: a post (inbound or outbound) whose request passed the validation and
\* names a warehouse or a product that does not exist or is not active ends
\* with an invalid-reference error at the reference checks: it never gets to
\* the stock pre-check or into the transaction, no ledger row id was assigned
\* to it, and its steps change no stock_record or inventory row.
InvalidReferenceRejected ==
    [][\A w \in Workers :
          /\ (pc[w] = "warehouse" /\ BadWarehouse(req[w]) /\ pc'[w] # pc[w]) =>
                /\ pc'[w] = "done"
                /\ result'[w].kind \in {"WarehouseNotFound", "WarehouseDisabled"}
          /\ (pc[w] = "product" /\ BadProduct(req[w]) /\ pc'[w] # pc[w]) =>
                /\ pc'[w] = "done"
                /\ result'[w].kind \in {"ProductNotFound", "ProductDisabled"}
          /\ (pc[w] \in {"warehouse", "product"} /\ pc'[w] # pc[w]) =>
                /\ tables' = tables
                /\ tx'[w] = NoTx
                /\ req'[w].id = None
          /\ pc[w] \in {"precheck", "shortage", "insert", "select", "write", "commit"}
                => ~BadWarehouse(req[w]) /\ ~BadProduct(req[w])]_vars

\* after a committed movement, an outbound call on a disabled product of the
\* stocked warehouse was rejected
OutboundOnDisabledProductRejected ==
    /\ pc[1] = "done"
    /\ req[1].record_type = 2
    /\ result[1].kind = "ProductDisabled"
    /\ ~BadWarehouse(req[1])
    /\ Cardinality(stock_record) = 1
    /\ Cardinality(inventory) = 1

\* --------------------------------------------------------------------- C14
\* this step is the commit of worker w's movement
Commits(w) == pc[w] = "commit" /\ pc'[w] = "done" /\ result'[w].kind = "ok"

\* C14: an inventory row of a pair comes into being only in the commit of an
\* inbound movement on that pair, together with the movement's ledger row and
\* with the movement's quantity; no commit of an outbound movement creates a
\* row, and no step of a post removes the row of a pair.
RowCreatedByInboundOnly ==
    [][\A wh \in WarehouseIds, pr \in ProductIds :
          /\ (InvRows(inventory, wh, pr) = {} /\ InvRows(inventory', wh, pr) # {}) =>
                \E w \in Workers :
                    /\ Commits(w)
                    /\ req[w].record_type = 1
                    /\ req[w].warehouse_id = wh /\ req[w].product_id = pr
                    /\ \E m \in stock_record' \ stock_record : m.id = req[w].id
                    /\ Cardinality(InvRows(inventory', wh, pr)) = 1
                    /\ \A r \in InvRows(inventory', wh, pr) :
                          r.quantity = req[w].quantity
          /\ InvRows(inventory, wh, pr) # {} => InvRows(inventory', wh, pr) # {}]_vars

\* the row of pair (1, 2) was created by a committed inbound movement, after an
\* outbound call on the pair had ended without creating it
RowCreatedAfterRefusedOutbound ==
    \E w \in Workers, v \in Workers :
        /\ pc[w] = "done" /\ result[w].kind = "ok"
        /\ req[w].record_type = 1 /\ req[w].product_id = 2
        /\ \A r \in InvRows(inventory, 1, 2) : r.quantity = req[w].quantity
        /\ InvRows(inventory, 1, 2) # {}
        /\ pc[v] = "done" /\ result[v].kind = "InsufficientStock"
        /\ req[v].record_type = 2 /\ req[v].product_id = 2

\* --------------------------------------------------------------------- C15
\* C15: in every state the inventory table holds at most one row per
\* (warehouse_id, product_id) pair, also after two first inbound movements on
\* the same pair have both found no row.
OneRowPerPair ==
    \A wh \in WarehouseIds, pr \in ProductIds :
        Cardinality(InvRows(inventory, wh, pr)) <= 1

\* two inbound calls on the same pair both found no row; one is committed, the
\* other was refused by the key of the table
SecondFirstRowRefused ==
    \E w \in Workers, v \in Workers :
        /\ req[w].record_type = 1 /\ req[v].record_type = 1
        /\ req[w].quantity # req[v].quantity
        /\ existing[w] = None /\ existing[v] = None
        /\ pc[w] = "done" /\ result[w].kind = "ok"
        /\ pc[v] = "done" /\ result[v].kind = "DuplicateInventoryKey"
        /\ Cardinality(InvRows(inventory, 1, 1)) = 1

\* --------------------------------------------------------------------- C16
\* C16: no step of a post removes or changes a committed stock_record row;
\* the commit of a post adds exactly one stock_record row, the post's own, and
\* leaves the inventory rows of every pair but the post's own as they were;
\* every other step, the failing ones among them, changes neither table.
PostTouchesOwnPairOnly ==
    [][/\ stock_record \subseteq stock_record'
       /\ \A w \in Workers :
             Commits(w) =>
                 /\ Cardinality(stock_record' \ stock_record) = 1
                 /\ \A m \in stock_record' \ stock_record :
                       m.id = req[w].id /\ m.record_no = req[w].record_no
                 /\ \A wh \in WarehouseIds, pr \in ProductIds :
                       (wh # req[w].warehouse_id \/ pr # req[w].product_id) =>
                           InvRows(inventory', wh, pr) = InvRows(inventory, wh, pr)
       /\ (\A w \in Workers : ~Commits(w)) => tables' = tables]_vars

\* both pairs have a row, one post is committed and another failed after its
\* ledger INSERT had been executed
CommittedAndFailedPosts ==
    \E w \in Workers, v \in Workers :
        /\ pc[w] = "done" /\ result[w].kind = "ok"
        /\ pc[v] = "done" /\ result[v].kind \notin {"ok", "pending"}
        /\ ~IsNone(req[v].id)
        /\ Cardinality(stock_record) = 2
        /\ Cardinality(inventory) = 2

\* --------------------------------------------------------------------- C17
\* the id and the two timestamps of every inventory row
Timestamps(inv) == {<<r.id, r.last_in_date, r.last_out_date>> : r \in inv}

\* C17: the commit of an inbound movement leaves the pair's row with
\* last_in_date = the movement's record_date and last_out_date as it was (NULL
\* on a new row); the commit of an outbound movement leaves it with
\* last_out_date = the movement's record_date and last_in_date as it was; no
\* other step, and so no failed post, changes a timestamp.
TimestampsFollowMovements ==
    [][/\ \A w \in Workers :
             Commits(w) =>
                 LET before == InvRows(inventory, req[w].warehouse_id, req[w].product_id)
                     after == InvRows(inventory', req[w].warehouse_id, req[w].product_id)
                 IN  /\ after # {}
                     /\ \A n \in after :
                           IF req[w].record_type = 1
                           THEN /\ n.last_in_date = req[w].record_date
                                /\ before = {} => n.last_out_date = None
                                /\ \A o \in before : n.last_out_date = o.last_out_date
                           ELSE /\ n.last_out_date = req[w].record_date
                                /\ before # {}
                                /\ \A o \in before : n.last_in_date = o.last_in_date
       /\ (\A w \in Workers : ~Commits(w)) =>
             Timestamps(inventory') = Timestamps(inventory)]_vars

\* the row of pair (1, 1) carries an inbound movement of the first day and an
\* outbound movement of the second day, and a later outbound call has failed
InOutOnDifferentDays ==
    /\ \E r \in InvRows(inventory, 1, 1) :
          r.last_in_date = Some(1) /\ r.last_out_date = Some(2)
    /\ pc[1] = "done"
    /\ result[1].kind = "InsufficientStock"

\* --------------------------------------------------------------------- C18
\* the two letters of a kind: RK for inbound, CK for outbound
KindLetters(record_type) == IF record_type = 1 THEN <<ChR, ChK>> ELSE <<ChC, ChK>>

\* C18: the record_no of every committed stock_record row, generated or
\* supplied by the caller, has 14 characters: the two letters of the row's
\* kind, then 8 digits (the date), then 4 digits (the sequence).
RecordNoWellFormed ==
    \A r \in stock_record :
        /\ Len(r.record_no) = 14
        /\ SubSeq(r.record_no, 1, 2) = KindLetters(r.record_type)
        /\ \A i \in 3..14 : r.record_no[i] \in 0..9

\* --------------------------------------------------------------------- C19
\* C19: the balance step of a post (its SELECT and its inventory statement)
\* works inside the post's open transaction: while it runs, the post's ledger
\* row is pending in that transaction and not committed; the step itself
\* changes no committed row and leaves the pending ledger row in place, unless
\* the post fails and its caller rolls everything back; a change of the
\* inventory table becomes visible only in the commit of a post, in the same
\* step as that post's ledger row.
BalanceStepInsideTransaction ==
    [][/\ \A w \in Workers :
             /\ pc[w] \in {"select", "write", "commit"} =>
                   /\ ~IsNone(tx[w].rec)
                   /\ Val(tx[w].rec).id = req[w].id
                   /\ Val(req[w].id) \notin LedgerIds
             /\ (pc[w] \in {"select", "write"} /\ pc'[w] # pc[w]) =>
                   /\ tables' = tables
                   /\ \/ pc'[w] \in {"write", "commit"} /\ tx'[w].rec = tx[w].rec
                      \/ pc'[w] = "done" /\ result'[w].kind # "ok" /\ tx'[w] = NoTx
             /\ (pc[w] = "write" /\ pc'[w] = "commit") =>
                   /\ ~IsNone(tx'[w].inv)
                   /\ Val(tx'[w].inv).warehouse_id = req[w].warehouse_id
                   /\ Val(tx'[w].inv).product_id = req[w].product_id
       /\ inventory' # inventory =>
             \E w \in Workers :
                 /\ Commits(w)
                 /\ stock_record' \ stock_record = {Val(tx[w].rec)}]_vars

\* a post has executed its inventory statement and not yet committed: the
\* committed row of its pair still holds the old quantity and the ledger does
\* not hold the post's row
InventoryWritePending ==
    \E w \in Workers :
        /\ pc[w] = "commit"
        /\ ~IsNone(tx[w].inv) /\ ~IsNone(tx[w].rec)
        /\ Val(tx[w].inv).quantity
             # Balance(inventory, req[w].warehouse_id, req[w].product_id)
        /\ Val(req[w].id) \notin LedgerIds

\* --------------------------------------------------------------------- C20
\* the committed movements that match every key of the conditions that is
\* supplied
Matching(c) ==
    {r \in stock_record :
        /\ c.warehouse_id # 0 => r.warehouse_id = c.warehouse_id
        /\ c.product_id # 0 => r.product_id = c.product_id
        /\ c.supplier_client_id # 0 =>
              r.supplier_client_id # None /\ Val(r.supplier_client_id) = c.supplier_client_id
        /\ c.record_type # 0 => r.record_type = c.record_type
        /\ c.start_date # None => Val(r.record_date) >= Val(c.start_date)
        /\ c.end_date # None => Val(r.record_date) <= Val(c.end_date)
        /\ c.record_no # <<>> =>
              \E i \in 1..Len(r.record_no), j \in 1..Len(r.record_no) :
                  SubSeq(r.record_no, i, j) = c.record_no
        /\ c.operator # <<>> =>
              /\ r.operator # None
              /\ \E i \in 1..Len(Val(r.operator)), j \in 1..Len(Val(r.operator)) :
                    SubSeq(Val(r.operator), i, j) = c.operator}

\* C20: a search of the ledger, through either service, changes nothing but
\* its own result, and the result lists exactly the committed movements that
\* match every supplied condition (warehouse, product, counterparty, kind,
\* first and last date inclusive, part of the record number, part of the
\* operator), each once, a later record_date first and, on the same
\* record_date, the higher id first.
FindReturnsMatches ==
    [][find' # find =>
          LET rs == find'.records
          IN  /\ UNCHANGED <<now, warehouse, product, del, db, op, calls, pc, req,
                             existing, tx, result>>
              /\ {rs[i] : i \in 1..Len(rs)} = Matching(find'.conditions)
              /\ \A i \in 1..Len(rs), j \in 1..Len(rs) :
                    i < j =>
                        \/ Val(rs[i].record_date) > Val(rs[j].record_date)
                        \/ /\ Val(rs[i].record_date) = Val(rs[j].record_date)
                           /\ Val(rs[i].id) > Val(rs[j].id)]_vars

\* --------------------------------------------------------------------- C21
\* the first check the request of worker w fails, in the order shape,
\* warehouse exists, warehouse active, product exists, product active, stock
\* (outbound only); "none" when it passes them all
FirstFailing(w) ==
    LET r == req[w]
    IN  IF ViolatedRules(r, now) # {} THEN "ValidationFailed"
        ELSE IF ~\E x \in warehouse : x.id = r.warehouse_id THEN "WarehouseNotFound"
        ELSE IF BadWarehouse(r) THEN "WarehouseDisabled"
        ELSE IF ~\E x \in product : x.id = r.product_id THEN "ProductNotFound"
        ELSE IF BadProduct(r) THEN "ProductDisabled"
        ELSE IF r.record_type = 2
                /\ Balance(inventory, r.warehouse_id, r.product_id) < r.quantity
        THEN "InsufficientStock"
        ELSE "none"

\* C21: a post that ends at one of its checks ends with the first check its
\* request fails, in the order shape, warehouse exists, warehouse active,
\* product exists, product active, stock pre-check (outbound only); and the
\* ledger INSERT is executed only for a request that fails none of them.
ChecksInOrder ==
    [][\A w \in Workers :
          /\ (pc[w] \in {"validate", "warehouse", "product", "precheck", "shortage"}
              /\ pc'[w] = "done") => result'[w].kind = FirstFailing(w)
          /\ (IsNone(req[w].id) /\ ~IsNone(req'[w].id)) =>
                pc[w] = "insert" /\ FirstFailing(w) = "none"]_vars

\* after a committed movement, an outbound call that names an unknown
\* warehouse and an unknown product, a pair without stock, has ended at the
\* warehouse check
FirstOfThreeFailuresReported ==
    /\ pc[1] = "done"
    /\ req[1].record_type = 2
    /\ req[1].warehouse_id = 3 /\ req[1].product_id = 4
    /\ result[1].kind = "WarehouseNotFound"
    /\ stock_record # {}

\* --------------------------------------------------------------------- C22
\* C22: the balance read inside the transaction returns the committed quantity
\* of the pair at that moment; an outbound post whose read returned less than
\* it requests (another movement has committed since its pre-check) ends inside
\* the transaction with InsufficientStock, reporting the quantity read and the
\* quantity requested; its ledger row is rolled back with the transaction and
\* both tables stay as the other movement left them.
EnforcedInsideTransaction ==
    [][\A w \in Workers :
          /\ (pc[w] = "select" /\ pc'[w] = "write") =>
                existing'[w] =
                    IF InvRows(inventory, req[w].warehouse_id, req[w].product_id) = {}
                    THEN None
                    ELSE Some(Balance(inventory, req[w].warehouse_id, req[w].product_id))
          /\ (/\ pc[w] = "write" /\ pc'[w] # "write"
              /\ req[w].record_type = 2
              /\ existing[w] # None /\ Val(existing[w]) < req[w].quantity
              /\ result'[w].kind # "StorageError") =>
                /\ pc'[w] = "done"
                /\ result'[w].kind = "InsufficientStock"
                /\ result'[w].current = Val(existing[w])
                /\ result'[w].requested = req[w].quantity
                /\ tx'[w] = NoTx
                /\ tables' = tables
                /\ Val(req[w].id) \notin LedgerIds']_vars

\* an outbound call passed its pre-check, another outbound movement on the pair
\* then committed, and the call was rejected inside its transaction with the
\* quantity the other movement left
RejectedAfterOtherCommit ==
    \E w \in Workers, v \in Workers :
        /\ pc[w] = "done" /\ result[w].kind = "InsufficientStock"
        /\ ~IsNone(req[w].id)
        /\ pc[v] = "done" /\ result[v].kind = "ok" /\ req[v].record_type = 2
        /\ req[v].product_id = req[w].product_id
        /\ result[w].current = MaxQty - req[v].quantity
        /\ Balance(inventory, 1, 1) = MaxQty - req[v].quantity
        /\ Val(req[w].id) \notin LedgerIds

\* --------------------------------------------------------------------- C23
\* the quantity of the row of the pair of worker w's request is q
RowHolds(w, q) ==
    /\ InvRows(inventory, req[w].warehouse_id, req[w].product_id) # {}
    /\ Balance(inventory, req[w].warehouse_id, req[w].product_id) = q

\* C23: under sequential posting, an outbound post for exactly the quantity of
\* its pair's row passes the pre-check and the balance step, and its commit
\* leaves the row in place with quantity 0; an outbound post of a positive
\* quantity on a pair whose row holds 0 ends at the pre-check with
\* InsufficientStock, current quantity 0, and not with NoSuchBalance.
EmptiedRowStays ==
    [][/\ req[1].record_type = 2 /\ req[1].quantity > 0 /\ pc'[1] # pc[1]
       /\ result'[1].kind # "StorageError"
       => /\ (pc[1] = "precheck" /\ RowHolds(1, req[1].quantity)) => pc'[1] = "insert"
          /\ (pc[1] = "write" /\ RowHolds(1, req[1].quantity)) => pc'[1] = "commit"
          /\ (pc[1] = "commit" /\ RowHolds(1, req[1].quantity)) =>
                /\ result'[1].kind = "ok"
                /\ Cardinality(InvRows(inventory', req[1].warehouse_id,
                                        req[1].product_id)) = 1
                /\ \A r \in InvRows(inventory', req[1].warehouse_id, req[1].product_id) :
                      r.quantity = 0
          /\ (pc[1] = "precheck" /\ RowHolds(1, 0)) => pc'[1] = "shortage"
          /\ (pc[1] = "shortage" /\ RowHolds(1, 0)) =>
                /\ pc'[1] = "done"
                /\ result'[1].kind = "InsufficientStock"
                /\ result'[1].current = 0
                /\ result'[1].requested = req[1].quantity]_vars

\* pair (1, 1) was stocked and emptied by one outbound movement, its row holds
\* 0, and a later outbound call on it was rejected
OutboundOnEmptiedRowRejected ==
    /\ pc[1] = "done"
    /\ req[1].record_type = 2 /\ req[1].warehouse_id = 1 /\ req[1].product_id = 1
    /\ result[1].kind = "InsufficientStock"
    /\ result[1].current = 0
    /\ RowHolds(1, 0)
    /\ Cardinality(Movements(1, 1, 2)) = 1
    /\ SumQty(Movements(1, 1, 2)) = MaxQty

\* --------------------------------------------------------------------- C24
\* the call of worker 1 is an inbound one whose request passes the validation
\* and names an active warehouse and an active product
GoodInbound ==
    /\ req[1].record_type = 1
    /\ ViolatedRules(req[1], now) = {}
    /\ ~BadWarehouse(req[1]) /\ ~BadProduct(req[1])

CommittedRowsWellShaped ==
    [][/\ \A r \in stock_record' :
             /\ r.warehouse_id # 0 /\ r.product_id # 0
             /\ r.quantity > 0
             /\ r.unit_price = None \/ Val(r.unit_price) >= 0
             /\ r.record_date # None /\ Val(r.record_date) <= now'
       /\ \A w \in Workers :
             Commits(w) =>
                 \A m \in stock_record' \ stock_record :
                     m.record_type = IF op[w] = "add_in_stock" THEN 1 ELSE 2]_vars

\* the request on which the caller had set a record_type was posted through
\* add_in_stock and through add_out_stock, and both rows are committed
PresetTypePostedBothWays ==
    /\ \E r \in stock_record : r.unit_price = Some(1) /\ r.record_type = 1
    /\ \E r \in stock_record : r.unit_price = Some(1) /\ r.record_type = 2
    /\ pc[1] = "done" /\ result[1].kind = "ok" /\ op[1] = "add_out_stock"

\* --------------------------------------------------------------------- C26
\* C26: a call of InventoryDAO.update_quantity leaves no inventory row with a
\* negative quantity, creates a row only with a quantity above 0 (a positive
\* delta), and leaves the table as it was when it raises.
UpdateQuantityKeepsNonNegative ==
    [][(op'[1] = "update_quantity" /\ calls' # calls) =>
          /\ \A r \in inventory' : r.quantity >= 0
          /\ \A r \in inventory' :
                (\A o \in inventory : o.id # r.id) => r.quantity > 0
          /\ result'[1].kind # "ok" => inventory' = inventory]_vars

\* --------------------------------------------------------------------- C27
\* C27: under sequential posting, the record number generate_record_no puts
\* on a request is carried by no committed stock_record row, also when the
\* ledger holds a number with suffix 9999 or numbers supplied by callers.
GeneratedNumberIsNew ==
    [][(pc[1] = "generate" /\ req[1].record_no = None /\ pc'[1] = "validate") =>
          \A r \in stock_record : r.record_no # req'[1].record_no]_vars

\* --------------------------------------------------------------------- C28
\* C28: a post that raised leaves the caller's StockRecord with the id it
\* had before the call (none), and an id left on a StockRecord after a post
\* is the id of a committed stock_record row.
IdOnlyOnCommittedRecord ==
    \A w \in Workers :
        pc[w] = "done" =>
            /\ result[w].kind # "ok" => req[w].id = None
            /\ req[w].id # None =>
                  \E r \in stock_record : r.id = Val(req[w].id)

\* --------------------------------------------------------------------- C29
\* C29: whenever add_out_stock raises the insufficient-stock error at the
\* pre-check, the current quantity in the message is strictly less than the
\* requested quantity, whatever other posts commit in between.
ReportedShortageIsShort ==
    [][\A w \in Workers :
          (pc[w] = "shortage" /\ pc'[w] = "done") =>
              /\ result'[w].kind = "InsufficientStock"
              /\ result'[w].current < result'[w].requested]_vars

\* --------------------------------------------------------------------- C30
\* C30: under any interleaving of posts with WarehouseDAO.delete and
\* ProductDAO.delete, every committed stock_record row and every inventory
\* row refers to a warehouse and a product that exist.
ReferencedMasterDataExists ==
    \A r \in stock_record \cup inventory :
        /\ \E w \in warehouse : w.id = r.warehouse_id
        /\ \E p \in product : p.id = r.product_id

====
